---- MODULE Spec2Model ----
(***************************************************************************)
(* Model of scripts/update-readme.js: the profile README updater.          *)
(* One run of main(): load profile.yaml, start the three stat collectors,  *)
(* join them, merge their results into the record, persist the record,     *)
(* render the README and write it.                                         *)
(***************************************************************************)
EXTENDS Integers, Sequences, FiniteSets, TLC

\* Largest statistic value appearing in stored records and API payloads.
MaxStat == 1

\* Longest list (tech list, weapons, weaknesses, goals) in a rendered record.
MaxList == 2

(***************************************************************************)
(* JavaScript values that occur in the YAML record and the JSON payloads.  *)
(* A number is n + d/10; a string is either the decimal text of n          *)
(* (s = "digits") or some other text s.                                    *)
(***************************************************************************)
Undef == [t |-> "undefined", n |-> 0, d |-> 0, s |-> ""]
Null == [t |-> "null", n |-> 0, d |-> 0, s |-> ""]
Num(n) == [t |-> "number", n |-> n, d |-> 0, s |-> ""]
Frac(n, d) == [t |-> "number", n |-> n, d |-> d, s |-> ""]
Str(s) == [t |-> "string", n |-> 0, d |-> 0, s |-> s]
NumStr(n) == [t |-> "string", n |-> n, d |-> 0, s |-> "digits"]
NaN == [t |-> "number", n |-> 0, d |-> 0, s |-> "NaN"]

\* ToBoolean(v)
Truthy(v) ==
  CASE v.t = "undefined" -> FALSE
    [] v.t = "null" -> FALSE
    [] v.t = "number" -> v.s # "NaN" /\ (v.n # 0 \/ v.d # 0)
    [] v.t = "string" -> v.s # ""
    [] OTHER -> TRUE

\* a || b
Or(a, b) == IF Truthy(a) THEN a ELSE b

\* parseInt(v): the integer prefix of the text of v, NaN when there is none
parseInt(v) ==
  CASE v.t = "number" /\ v.s # "NaN" -> Num(v.n)
    [] v.t = "string" /\ v.s = "digits" -> Num(v.n)
    [] OTHER -> NaN

\* parseFloat(v)
parseFloat(v) ==
  CASE v.t = "number" /\ v.s # "NaN" -> v
    [] v.t = "string" /\ v.s = "digits" -> Num(v.n)
    [] OTHER -> NaN

(***************************************************************************)
(* Objects: a function from property names to values; an absent property   *)
(* reads as undefined.                                                     *)
(***************************************************************************)
GhKeys == {"followers", "following", "public_repos", "total_stars",
           "total_contributions", "last_updated"}
LcKeys == {"total_solved", "easy", "medium", "hard", "acceptance_rate",
           "last_updated"}
PayloadKeys == {"message", "status", "total_count", "totalSolved", "easySolved",
                "mediumSolved", "hardSolved", "acceptanceRate"}
Keys == GhKeys \cup LcKeys \cup PayloadKeys

EmptyObj == [k \in Keys |-> Undef]

\* an object literal given as a function on some of the keys
Obj(f) == [k \in Keys |-> IF k \in DOMAIN f THEN f[k] ELSE Undef]

\* { ...a, ...b }
Spread(a, b) == [k \in Keys |-> IF b[k] # Undef THEN b[k] ELSE a[k]]

\* a value that is an object, or null / undefined (has = FALSE)
Some(o) == [has |-> TRUE, obj |-> o]
None == [has |-> FALSE, obj |-> EmptyObj]

\* new Date().toISOString().split("T")[0]
Today == Str("today")
OldDate == Str("2024-01-01")

(***************************************************************************)
(* JSON bodies.  A parsed JSON value is an object or a primitive; a body   *)
(* that is not JSON text makes JSON.parse throw.                           *)
(***************************************************************************)
JObj(f) == [k |-> "object", v |-> Undef, f |-> Obj(f)]
JPrim(v) == [k |-> "prim", v |-> v, f |-> EmptyObj]

JsonBody(j) == [json |-> TRUE, val |-> j]
HtmlBody == [json |-> FALSE, val |-> JPrim(Undef)]
\* the empty string accumulated before any chunk arrives
EmptyData == [json |-> FALSE, val |-> JPrim(Null)]

\* data.prop for a parsed value (a primitive has no such property)
Get(j, prop) == IF j.k = "object" THEN j.f[prop] ELSE Undef

\* if (data): an object is truthy, a primitive by its value
JTruthy(j) == IF j.k = "object" THEN TRUE ELSE Truthy(j.v)

(***************************************************************************)
(* fetchAPI and the three collectors.  A settled fetchAPI promise is       *)
(* either resolved with the parsed body (null when the body is not JSON)   *)
(* or rejected with the request's transport error.                         *)
(***************************************************************************)
Collectors == {"gh", "lc", "contrib"}

\* res.on("end"): try { resolve(JSON.parse(data)) } catch { resolve(null) }
JSONParseOrNull(data) == IF data.json THEN data.val ELSE JPrim(Null)

Resolved(j) == [rejected |-> FALSE, val |-> j]
Rejected == [rejected |-> TRUE, val |-> JPrim(Undef)]

\* what a collector hands to the join: an object or null for the two stats
\* collectors, a plain value for the contribution count
Result(o, v) == [stats |-> o, count |-> v]

fetchGitHubStats(outcome) ==
  IF outcome.rejected THEN Result(None, Undef)
  ELSE IF JTruthy(outcome.val)
       THEN Result(Some(Obj([followers |-> Or(Get(outcome.val, "followers"), Num(0)),
                             following |-> Or(Get(outcome.val, "following"), Num(0)),
                             public_repos |-> Or(Get(outcome.val, "public_repos"), Num(0)),
                             total_stars |-> Or(Get(outcome.val, "public_repos"), Num(0))])),
                   Undef)
       ELSE Result(None, Undef)

\* fetchLeetCodeStats testing only if (data), like fetchGitHubStats
fetchLeetCodeStatsNoMarker(outcome) ==
  IF outcome.rejected THEN Result(None, Undef)
  ELSE IF JTruthy(outcome.val)
       THEN Result(Some(Obj([total_solved |-> Or(parseInt(Get(outcome.val, "totalSolved")), Num(0)),
                             easy |-> Or(parseInt(Get(outcome.val, "easySolved")), Num(0)),
                             medium |-> Or(parseInt(Get(outcome.val, "mediumSolved")), Num(0)),
                             hard |-> Or(parseInt(Get(outcome.val, "hardSolved")), Num(0)),
                             acceptance_rate |-> Or(parseFloat(Get(outcome.val, "acceptanceRate")), Num(0))])),
                   Undef)
       ELSE Result(None, Undef)

fetchLeetCodeStats(outcome) ==
  IF outcome.rejected THEN Result(None, Undef)
  ELSE IF JTruthy(outcome.val) /\ Get(outcome.val, "status") = Str("success")
       THEN Result(Some(Obj([total_solved |-> Or(parseInt(Get(outcome.val, "totalSolved")), Num(0)),
                             easy |-> Or(parseInt(Get(outcome.val, "easySolved")), Num(0)),
                             medium |-> Or(parseInt(Get(outcome.val, "mediumSolved")), Num(0)),
                             hard |-> Or(parseInt(Get(outcome.val, "hardSolved")), Num(0)),
                             acceptance_rate |-> Or(parseFloat(Get(outcome.val, "acceptanceRate")), Num(0))])),
                   Undef)
       ELSE Result(None, Undef)

\* fetchContributions whose catch block lacks its return 0
fetchContributionsNoReturn(outcome) ==
  IF outcome.rejected THEN Result(None, Undef)
  ELSE IF JTruthy(outcome.val) /\ Get(outcome.val, "total_count") # Undef
       THEN Result(None, Get(outcome.val, "total_count"))
       ELSE Result(None, Num(0))

fetchContributions(outcome) ==
  IF outcome.rejected THEN Result(None, Num(0))
  ELSE IF JTruthy(outcome.val) /\ Get(outcome.val, "total_count") # Undef
       THEN Result(None, Get(outcome.val, "total_count"))
       ELSE Result(None, Num(0))

\* the continuation of collector c after its await fetchAPI(...)
Collect(c, outcome) ==
  CASE c = "gh" -> fetchGitHubStats(outcome)
    [] c = "lc" -> fetchLeetCodeStats(outcome)
    [] OTHER -> fetchContributions(outcome)

(***************************************************************************)
(* The profile record and the merge step of main().                        *)
(***************************************************************************)
Sections == {"profile", "tech_stack", "current_mission", "current_projects",
             "goals", "social"}

(***************************************************************************)
(* The hand-written part of the record.  A text is modelled by its length  *)
(* (Absent when the key is missing), a list by the texts it holds.         *)
(***************************************************************************)
Absent == -1

List(s) == [has |-> TRUE, items |-> s]
NoList == [has |-> FALSE, items |-> <<>>]

Project(name, description, tech, status) ==
  [name |-> name, description |-> description, tech |-> tech, status |-> status]

\* every text of length t, every list la or lb, np projects
Content(t, la, lb, np) ==
  [profile |-> [name |-> t, title |-> t, location |-> t, age |-> IF t = Absent THEN Absent ELSE 2,
                timezone |-> t, tagline |-> t],
   tech_stack |-> [languages |-> lb, frontend |-> la, backend |-> lb, databases |-> lb, tools |-> la],
   current_mission |-> [status |-> t, mode |-> t, weapons |-> la, weaknesses |-> lb, next_level |-> t],
   current_projects |-> [i \in 1..np |-> Project(t, t, lb, t)],
   goals |-> [short_term |-> lb, long_term |-> la],
   social |-> [github |-> t, linkedin |-> t, twitter |-> t, email |-> t, portfolio |-> t]]

\* the content of the records of the runs that are not about the renderer
DefaultContent == Content(12, List(<<4, 5>>), List(<<6>>), 1)

RecordWith(p, g, l, c) == [present |-> p, github_stats |-> g, leetcode_stats |-> l, content |-> c]

Record(p, g, l) == RecordWith(p, g, l, DefaultContent)

LcDefaults == Obj([total_solved |-> Num(0), easy |-> Num(0), medium |-> Num(0),
                   hard |-> Num(0), acceptance_rate |-> Num(0)])

\* the merge without its else branch: total_contributions is not defaulted
MergeGithubNoDefault(stored, githubStats, contributions) ==
  LET base == IF stored.has THEN stored.obj ELSE EmptyObj
  IN IF githubStats.has
     THEN Some([Spread(base, githubStats.obj) EXCEPT
                  !["total_contributions"] = Or(contributions, Num(0)),
                  !["last_updated"] = Today])
     ELSE Some(base)

\* the merge with the two spreads in the other order: stored values win
MergeGithubStoredWins(stored, githubStats, contributions) ==
  LET base == IF stored.has THEN stored.obj ELSE EmptyObj
  IN IF githubStats.has
     THEN Some([Spread(githubStats.obj, base) EXCEPT
                  !["total_contributions"] = Or(contributions, Num(0)),
                  !["last_updated"] = Today])
     ELSE Some([base EXCEPT
                  !["total_contributions"] = Or(base["total_contributions"], Num(0))])

\* the merge writing the fetched contribution count on both branches
MergeGithubAlwaysContrib(stored, githubStats, contributions) ==
  LET base == IF stored.has THEN stored.obj ELSE EmptyObj
  IN IF githubStats.has
     THEN Some([Spread(base, githubStats.obj) EXCEPT
                  !["total_contributions"] = Or(contributions, Num(0)),
                  !["last_updated"] = Today])
     ELSE Some([base EXCEPT
                  !["total_contributions"] = Or(contributions, Num(0))])

\* lines 447-462
MergeGithub(stored, githubStats, contributions) ==
  LET base == IF stored.has THEN stored.obj ELSE EmptyObj
  IN IF githubStats.has
     THEN Some([Spread(base, githubStats.obj) EXCEPT
                  !["total_contributions"] = Or(contributions, Num(0)),
                  !["last_updated"] = Today])
     ELSE Some([base EXCEPT
                  !["total_contributions"] = Or(base["total_contributions"], Num(0))])

\* a merge that writes the practice defaults whenever the fetch gave nothing
MergeLeetcodeResetOnNull(stored, leetcodeStats) ==
  IF leetcodeStats.has
  THEN Some([Spread(IF stored.has THEN stored.obj ELSE LcDefaults, leetcodeStats.obj)
               EXCEPT !["last_updated"] = Today])
  ELSE Some(LcDefaults)

\* lines 465-481
MergeLeetcode(stored, leetcodeStats) ==
  LET base == IF stored.has THEN stored.obj ELSE LcDefaults
  IN IF leetcodeStats.has
     THEN Some([Spread(base, leetcodeStats.obj) EXCEPT !["last_updated"] = Today])
     ELSE Some(base)

Merge(rec, githubStats, leetcodeStats, contributions) ==
  RecordWith(rec.present,
             MergeGithub(rec.github_stats, githubStats, contributions),
             MergeLeetcode(rec.leetcode_stats, leetcodeStats),
             rec.content)

(***************************************************************************)
(* The renderer.  The file holds two copies of the script whose renderers  *)
(* differ: the first builds every row with createRow and labelRow, the     *)
(* second writes the rows out as literals.  A rendered line is modelled by *)
(* the field it shows, whether it stands between two border characters,    *)
(* the number of characters between them, and the list element it shows.   *)
(***************************************************************************)
Versions == {1, 2}

CONTENT_WIDTH == 73

\* String.prototype.padEnd and slice(0, k) on the length of a text
padEnd(n, width) == IF n < width THEN width ELSE n

slice(n, k) == IF n > k THEN k ELSE n

\* String(value) and template interpolation: undefined prints as "undefined"
String(t) == IF t = Absent THEN 9 ELSE t

\* value || fallback on texts: the empty text and undefined are both falsy
OrText(t, fallback) == IF t > 0 THEN t ELSE fallback

OrList(l) == IF l.has THEN l ELSE List(<<>>)

RECURSIVE SumLen(_)
SumLen(s) == IF s = <<>> THEN 0 ELSE Head(s) + SumLen(Tail(s))

\* arr.join(" \u2022 "): the elements and a three-character separator
formatArray(arr) == IF arr.items = <<>> THEN 0 ELSE SumLen(arr.items) + 3 * (Len(arr.items) - 1)

Line(f, w, item) == [f |-> f, b |-> TRUE, w |-> w, item |-> item]

\* the empty line a template leaves where an empty list is interpolated
EmptyLine(f) == [f |-> f, b |-> FALSE, w |-> 0, item |-> Absent]

createRow(f, content, item) == Line(f, padEnd(content, CONTENT_WIDTH), item)

labelRow(f, label, value) == createRow(f, 2 + padEnd(label, 18) + String(value), Absent)

\* items.map(row).join("\n") interpolated on a template line of its own
JoinRows(f, rows) == IF rows = <<>> THEN <<EmptyLine(f)>> ELSE rows

generateProfileSection(profile) ==
  << labelRow("name", 5, profile.name),
     labelRow("title", 6, profile.title),
     labelRow("location", 9, profile.location),
     labelRow("age", 4, profile.age),
     labelRow("timezone", 9, profile.timezone),
     createRow("tagline", 12 + String(profile.tagline) + 1, Absent) >>

generateProfileSection2(profile) ==
  << Line("name", 21 + padEnd(profile.name, 50) + 2, Absent),
     Line("title", 21 + padEnd(profile.title, 50) + 2, Absent),
     Line("location", 21 + padEnd(profile.location, 50) + 2, Absent),
     Line("age", 21 + padEnd(profile.age, 50) + 2, Absent),
     Line("timezone", 21 + padEnd(profile.timezone, 50) + 2, Absent),
     Line("tagline", 12 + String(profile.tagline) + 25, Absent) >>

generateTechSection(techStack) ==
  << labelRow("languages", 10, formatArray(techStack.languages)),
     labelRow("frontend", 9, formatArray(techStack.frontend)),
     labelRow("backend", 8, formatArray(techStack.backend)),
     labelRow("databases", 10, formatArray(techStack.databases)),
     labelRow("tools", 6, formatArray(techStack.tools)) >>

generateTechSection2(techStack) ==
  << Line("languages", 20 + padEnd(formatArray(techStack.languages), 50) + 2, Absent),
     Line("frontend", 20 + padEnd(slice(formatArray(techStack.frontend), 47), 50) + 2, Absent),
     Line("backend", 20 + padEnd(formatArray(techStack.backend), 50) + 2, Absent),
     Line("databases", 20 + padEnd(formatArray(techStack.databases), 50) + 2, Absent),
     Line("tools", 20 + padEnd(slice(formatArray(techStack.tools), 47), 50) + 2, Absent) >>

\* mission || { status: "Unknown", mode: "Learning", weapons: [], ... }
MissionDefaults ==
  [status |-> 7, mode |-> 8, weapons |-> List(<<>>), weaknesses |-> List(<<>>), next_level |-> 14]

\* the second copy's defaults: weapons ["Building"], weaknesses ["Time management"]
MissionDefaults2 ==
  [status |-> 7, mode |-> 8, weapons |-> List(<<8>>), weaknesses |-> List(<<15>>), next_level |-> 14]

generateMissionSection(has, mission) ==
  LET m == IF has THEN mission ELSE MissionDefaults
      weapons == OrList(m.weapons).items
      weaknesses == OrList(m.weaknesses).items
  IN << labelRow("status", 7, OrText(m.status, 0)),
        labelRow("mode", 5, OrText(m.mode, 0)) >>
     \o JoinRows("weapons", [i \in 1..Len(weapons) |-> createRow("weapons", 6 + weapons[i], weapons[i])])
     \o JoinRows("weaknesses",
                 [i \in 1..Len(weaknesses) |-> createRow("weaknesses", 8 + weaknesses[i], weaknesses[i])])
     \o << labelRow("next_level", 11, OrText(m.next_level, 0)) >>

generateMissionSection2(has, mission) ==
  LET missionData == IF has THEN mission ELSE MissionDefaults2
      weapons == OrList(missionData.weapons).items
      weaknesses == OrList(missionData.weaknesses).items
  IN << Line("status", 21 + padEnd(OrText(missionData.status, 0), 50) + 2, Absent),
        Line("mode", 21 + padEnd(OrText(missionData.mode, 0), 50) + 2, Absent) >>
     \o JoinRows("weapons",
                 [i \in 1..Len(weapons) |-> Line("weapons", 6 + padEnd(weapons[i], 63) + 2, weapons[i])])
     \o JoinRows("weaknesses",
                 [i \in 1..Len(weaknesses) |->
                    Line("weaknesses", 8 + padEnd(weaknesses[i], 63) + 2, weaknesses[i])])
     \o << Line("next_level", 21 + padEnd(OrText(missionData.next_level, 0), 50) + 2, Absent) >>

\* the rows pushed for one project; the empty row closes it
ProjectRows(proj) ==
  << createRow("project_name", 5 + String(proj.name), Absent),
     createRow("project_description", 18 + String(proj.description), Absent),
     createRow("project_tech", 18 + formatArray(proj.tech), Absent),
     createRow("project_status", 18 + String(proj.status), Absent),
     createRow("project_end", 0, Absent) >>

ProjectRows2(proj) ==
  << Line("project_name", 5 + padEnd(proj.name, 67) + 2, Absent),
     Line("project_description", 18 + padEnd(slice(proj.description, 55), 57) + 2, Absent),
     Line("project_tech", 18 + padEnd(slice(formatArray(proj.tech), 50), 57) + 2, Absent),
     Line("project_status", 18 + padEnd(proj.status, 57) + 2, Absent),
     Line("project_end", 75, Absent) >>

RECURSIVE Flatten(_)
Flatten(ss) == IF ss = <<>> THEN <<>> ELSE Head(ss) \o Flatten(Tail(ss))

generateProjectsSection(projects) ==
  JoinRows("projects", Flatten([i \in 1..Len(projects) |-> ProjectRows(projects[i])]))

\* the second copy appends to the section and leaves no line for no project
generateProjectsSection2(projects) ==
  Flatten([i \in 1..Len(projects) |-> ProjectRows2(projects[i])])

generateGoalsSection(goals) ==
  LET short == goals.short_term.items
      long == goals.long_term.items
  IN JoinRows("short_term", [i \in 1..Len(short) |-> createRow("short_term", 6 + short[i], short[i])])
     \o JoinRows("long_term", [i \in 1..Len(long) |-> createRow("long_term", 6 + long[i], long[i])])

generateGoalsSection2(goals) ==
  LET short == goals.short_term.items
      long == goals.long_term.items
  IN JoinRows("short_term",
              [i \in 1..Len(short) |-> Line("short_term", 6 + padEnd(short[i], 65) + 2, short[i])])
     \o JoinRows("long_term",
                 [i \in 1..Len(long) |-> Line("long_term", 6 + padEnd(long[i], 65) + 2, long[i])])

\* social || {}
SocialDefaults ==
  [github |-> Absent, linkedin |-> Absent, twitter |-> Absent, email |-> Absent, portfolio |-> Absent]

generateSocialSection(has, social) ==
  LET s == IF has THEN social ELSE SocialDefaults
  IN << labelRow("github", 7, OrText(s.github, 3)),
        labelRow("linkedin", 9, OrText(s.linkedin, 3)),
        labelRow("twitter", 8, OrText(s.twitter, 3)),
        labelRow("email", 6, OrText(s.email, 3)),
        labelRow("portfolio", 10, OrText(s.portfolio, 3)) >>

generateSocialSection2(has, social) ==
  LET socialData == IF has THEN social ELSE SocialDefaults
  IN << Line("github", 20 + padEnd(OrText(socialData.github, 3), 50) + 2, Absent),
        Line("linkedin", 20 + padEnd(OrText(socialData.linkedin, 3), 50) + 2, Absent),
        Line("twitter", 20 + padEnd(OrText(socialData.twitter, 3), 50) + 2, Absent),
        Line("email", 20 + padEnd(OrText(socialData.email, 3), 50) + 2, Absent),
        Line("portfolio", 20 + padEnd(OrText(socialData.portfolio, 3), 50) + 2, Absent) >>

TechLists == {"languages", "frontend", "backend", "databases", "tools"}

\* a TypeError in the first copy: a property of an absent sub-record
\* (profile.name, techStack.languages, Object.values(projects),
\* goals.short_term), join or map of an absent list
Throws(rec) ==
  LET c == rec.content
  IN \/ {"profile", "tech_stack", "current_projects", "goals"} \ rec.present # {}
     \/ \E k \in TechLists : ~c.tech_stack[k].has
     \/ \E i \in 1..Len(c.current_projects) : ~c.current_projects[i].tech.has
     \/ ~c.goals.short_term.has
     \/ ~c.goals.long_term.has

\* the second copy also calls padEnd, toString or slice on the profile's
\* and the projects' texts
Throws2(rec) ==
  LET c == rec.content
  IN \/ Throws(rec)
     \/ \E k \in {"name", "title", "location", "age", "timezone"} : c.profile[k] = Absent
     \/ \E i \in 1..Len(c.current_projects) :
           \E k \in {"name", "description", "status"} : c.current_projects[i][k] = Absent

RenderThrows(ver, rec) == IF ver = 1 THEN Throws(rec) ELSE Throws2(rec)

RenderLines(ver, rec) ==
  LET c == rec.content
      mission == "current_mission" \in rec.present
      social == "social" \in rec.present
  IN IF ver = 1
     THEN generateProfileSection(c.profile) \o generateTechSection(c.tech_stack)
          \o generateMissionSection(mission, c.current_mission)
          \o generateProjectsSection(c.current_projects)
          \o generateGoalsSection(c.goals) \o generateSocialSection(social, c.social)
     ELSE generateProfileSection2(c.profile) \o generateTechSection2(c.tech_stack)
          \o generateMissionSection2(mission, c.current_mission)
          \o generateProjectsSection2(c.current_projects)
          \o generateGoalsSection2(c.goals) \o generateSocialSection2(social, c.social)

\* generateStatsSection: the values shown in the metrics box.  Its third
\* argument is profileData.profile, which carries no github_stats.
generateStatsSection(github, leetcode) ==
  LET gh == IF github.has THEN github.obj ELSE EmptyObj
      lc == IF leetcode.has THEN leetcode.obj ELSE LcDefaults
  IN Obj([followers |-> Or(gh["followers"], Num(0)),
          following |-> Or(gh["following"], Num(0)),
          public_repos |-> Or(gh["public_repos"], Num(0)),
          total_contributions |-> Num(0),
          total_solved |-> Or(lc["total_solved"], Num(0)),
          easy |-> Or(lc["easy"], Num(0)),
          medium |-> Or(lc["medium"], Num(0)),
          hard |-> Or(lc["hard"], Num(0)),
          acceptance_rate |-> Or(lc["acceptance_rate"], Num(0))])

generateREADME(ver, rec) ==
  [kind |-> "generated", stats |-> generateStatsSection(rec.github_stats, rec.leetcode_stats),
   lines |-> RenderLines(ver, rec)]

OldReadme == [kind |-> "old", stats |-> EmptyObj, lines |-> <<>>]

(***************************************************************************)
(* Inputs of a run: the content of profile.yaml and the response bodies    *)
(* the three endpoints may send.                                           *)
(***************************************************************************)
V == 0..MaxStat

StoredGh ==
  {None} \cup
  {Some(Obj([followers |-> Num(MaxStat + 1), following |-> Num(1), public_repos |-> Num(1),
             total_stars |-> Num(1), total_contributions |-> c,
             last_updated |-> OldDate])) : c \in {Undef, Num(0), Num(MaxStat)}}

StoredLc ==
  {None,
   Some(Obj([total_solved |-> Num(MaxStat + 1), easy |-> Num(MaxStat + 1), medium |-> Num(0),
             hard |-> Num(0), acceptance_rate |-> Frac(1, 5), last_updated |-> OldDate])),
   Some(Obj([total_solved |-> Num(1)]))}

NoRecord == Record({}, None, None)

\* profile.yaml: missing, not YAML, an empty document (yaml.load gives
\* undefined), or a mapping
FileStates ==
  {[state |-> st, rec |-> NoRecord] : st \in {"absent", "invalid", "empty"}} \cup
  {[state |-> "map", rec |-> Record(Sections, g, l)] : g \in StoredGh, l \in StoredLc} \cup
  {[state |-> "map", rec |-> Record(Sections \ {"goals"}, None, None)]}

GhBodies ==
  {HtmlBody, JsonBody(JPrim(Null)), JsonBody(JObj([message |-> Str("Not Found")])),
   JsonBody(JObj([followers |-> Str("many"), following |-> Null, public_repos |-> Num(1)]))} \cup
  {JsonBody(JObj([followers |-> Num(a), following |-> Num(1), public_repos |-> Num(MaxStat)])) : a \in V}

LcBodies ==
  {HtmlBody, JsonBody(JObj([status |-> Str("error"), message |-> Str("user not found")])),
   JsonBody(JObj([status |-> Str("success"), totalSolved |-> NumStr(1), easySolved |-> Str("n/a"),
                  acceptanceRate |-> NumStr(1)]))} \cup
  {JsonBody(JObj([status |-> Str("success"), totalSolved |-> Num(a), easySolved |-> Num(a),
                  mediumSolved |-> Num(0), hardSolved |-> Num(0),
                  acceptanceRate |-> Frac(a, 3)])) : a \in V}

ContribBodies ==
  {HtmlBody, JsonBody(JObj([message |-> Str("Validation Failed")])),
   JsonBody(JObj([total_count |-> Null]))} \cup
  {JsonBody(JObj([total_count |-> Num(a)])) : a \in V}

Bodies(c) ==
  CASE c = "gh" -> GhBodies
    [] c = "lc" -> LcBodies
    [] OTHER -> ContribBodies

NoResult == Result(None, Undef)

\* process.env.GH_TOKEN: not set, set to the empty string, or a token
TokenValues == {Undef, Str(""), Str("ghp_secret")}

\* the profile.yaml the runs without a usable token start from
ReferenceFile ==
  [state |-> "map",
   rec |-> Record(Sections,
                  Some(Obj([followers |-> Num(MaxStat + 1), following |-> Num(1),
                            public_repos |-> Num(1), total_stars |-> Num(1),
                            total_contributions |-> Num(MaxStat), last_updated |-> OldDate])),
                  None)]

(***************************************************************************)
(* Request headers.  A header set is a set of <<name, value>> pairs.       *)
(***************************************************************************)
UserAgent == <<"User-Agent", Str("Abirpanda-Profile-Updater/1.0")>>

\* { "User-Agent": ..., ...headers }   lines 39-42
fetchAPIHeaders(hs) ==
  {d \in {UserAgent} : \A h \in hs : h[1] # d[1]} \cup hs

\* a collector that passes the token to every endpoint
CollectorHeadersAll(c, token) ==
  IF Truthy(token) THEN {<<"Authorization", token>>} ELSE {}

\* the headers a collector passes to fetchAPI: lines 67-69 and 125-127 build
\* { Authorization: `token ${GITHUB_TOKEN}` } when the token is truthy; line 97
\* passes none
CollectorHeaders(c, token) ==
  IF c \in {"gh", "contrib"} /\ Truthy(token) THEN {<<"Authorization", token>>} ELSE {}

(***************************************************************************)
(* State.                                                                  *)
(***************************************************************************)
VARIABLES
  pc,           \* position of main(): start, call_gh, call_lc, call_contrib,
                \* join, merge, persist, render, exited
  file,         \* content of data/profile.yaml
  readme,       \* content of README.md
  profileData,  \* main's profileData: [loaded, isObj, rec]
  profileYAML,  \* main's profileYAML: the file content as read on line 435
  req,          \* per collector: idle, sent, open (response arriving), ended
                \* (fetchAPI resolved), failed (fetchAPI rejected), aborted
  data,         \* per collector: fetchAPI's accumulated data
  result,       \* per collector: the value its promise was fulfilled with
  exitCode,     \* -1 while running, then the process exit status
  failedAt,     \* the stage whose exception reached main's catch, or "none"
  trace,        \* the file and network operations performed, in order
  GITHUB_TOKEN, \* process.env.GH_TOKEN, undefined when the variable is not set
  headers       \* per collector: the headers of the request https.get sent

vars == <<pc, file, readme, profileData, profileYAML, req, data, result, exitCode, failedAt, trace,
          GITHUB_TOKEN, headers>>

Init ==
  /\ pc = "start"
  /\ file \in FileStates
  /\ GITHUB_TOKEN \in TokenValues
  /\ GITHUB_TOKEN = Str("ghp_secret") \/ file = ReferenceFile
  /\ headers = [c \in Collectors |-> {}]
  /\ readme = OldReadme
  /\ profileData = [loaded |-> FALSE, isObj |-> FALSE, rec |-> NoRecord]
  /\ profileYAML = [state |-> "unread", rec |-> NoRecord]
  /\ req = [c \in Collectors |-> "idle"]
  /\ data = [c \in Collectors |-> EmptyData]
  /\ result = [c \in Collectors |-> NoResult]
  /\ exitCode = -1
  /\ failedAt = "none"
  /\ trace = <<>>

\* catch (error) { console.error(...); process.exit(1); }   lines 520-523
Fatal(stage) ==
  /\ pc' = "exited"
  /\ exitCode' = 1
  /\ failedAt' = stage

\* a load that fails only on a missing file
LoadThrowsOnlyMissing(f) == f.state = "absent"

\* readFileSync throws on a missing file, yaml.load on text that is not YAML
LoadThrows(f) == f.state \in {"absent", "invalid"}

\* lines 435-436: readFileSync + yaml.load
Load ==
  /\ pc = "start"
  /\ trace' = Append(trace, "read_profile")
  /\ IF LoadThrows(file)
     THEN /\ Fatal("load")
          /\ UNCHANGED <<profileData, profileYAML>>
     ELSE /\ profileYAML' = file
          /\ profileData' = [loaded |-> TRUE, isObj |-> file.state = "map", rec |-> file.rec]
          /\ pc' = "call_gh"
          /\ UNCHANGED <<exitCode, failedAt>>
  /\ UNCHANGED <<file, readme, req, data, result>>
  /\ UNCHANGED <<GITHUB_TOKEN, headers>>

\* main awaiting the first collector before it calls the next
AfterCallAwaitEach(c) == "join"

\* the position of main() after it has called collector c (lines 439-443):
\* the three calls are made one after the other, then main awaits the join
AfterCall(c) ==
  CASE c = "gh" -> "call_lc"
    [] c = "lc" -> "call_contrib"
    [] OTHER -> "join"

CallOf(c) ==
  CASE c = "gh" -> "call_gh"
    [] c = "lc" -> "call_lc"
    [] OTHER -> "call_contrib"

\* a collector runs up to its await fetchAPI(...): https.get is issued
Call(c) ==
  /\ pc = CallOf(c)
  /\ req[c] = "idle"
  /\ req' = [req EXCEPT ![c] = "sent"]
  /\ headers' = [headers EXCEPT ![c] = fetchAPIHeaders(CollectorHeaders(c, GITHUB_TOKEN))]
  /\ trace' = Append(trace, CallOf(c))
  /\ pc' = AfterCall(c)
  /\ UNCHANGED <<file, readme, profileData, profileYAML, data, result, exitCode, failedAt>>
  /\ UNCHANGED GITHUB_TOKEN

\* callbacks run only while main() is suspended at its single await, line 439
Suspended == pc = "join"

\* https.get's callback (line 45): data = ""; listeners for data and end
OnResponse(c) ==
  /\ Suspended
  /\ req[c] = "sent"
  /\ req' = [req EXCEPT ![c] = "open"]
  /\ data' = [data EXCEPT ![c] = EmptyData]
  /\ UNCHANGED <<pc, file, readme, profileData, profileYAML, result, exitCode, failedAt, trace>>
  /\ UNCHANGED <<GITHUB_TOKEN, headers>>

\* res.on("data", chunk => data += chunk)   line 47; the body arrives as one chunk
OnData(c) ==
  /\ Suspended
  /\ req[c] = "open"
  /\ data[c] = EmptyData
  /\ \E chunk \in Bodies(c) : data' = [data EXCEPT ![c] = chunk]
  /\ UNCHANGED <<pc, file, readme, profileData, profileYAML, req, result, exitCode, failedAt, trace>>
  /\ UNCHANGED <<GITHUB_TOKEN, headers>>

\* collectors that keep their results in one shared slot: the one that
\* completes clears what the others returned
OnEndShared(c) ==
  /\ Suspended
  /\ req[c] = "open"
  /\ result' = [d \in Collectors |->
                  IF d = c THEN Collect(c, Resolved(JSONParseOrNull(data[c]))) ELSE NoResult]
  /\ req' = [req EXCEPT ![c] = "ended"]
  /\ UNCHANGED <<pc, file, readme, profileData, profileYAML, data, exitCode, failedAt, trace>>
  /\ UNCHANGED <<GITHUB_TOKEN, headers>>

\* res.on("end", ...) lines 48-55, then the collector's continuation
OnEnd(c) ==
  /\ Suspended
  /\ req[c] = "open"
  /\ result' = [result EXCEPT ![c] = Collect(c, Resolved(JSONParseOrNull(data[c])))]
  /\ req' = [req EXCEPT ![c] = "ended"]
  /\ UNCHANGED <<pc, file, readme, profileData, profileYAML, data, exitCode, failedAt, trace>>
  /\ UNCHANGED <<GITHUB_TOKEN, headers>>

\* .on("error", reject) line 57, then the collector's catch block
OnError(c) ==
  /\ Suspended
  /\ req[c] = "sent"
  /\ result' = [result EXCEPT ![c] = Collect(c, Rejected)]
  /\ req' = [req EXCEPT ![c] = "failed"]
  /\ UNCHANGED <<pc, file, readme, profileData, profileYAML, data, exitCode, failedAt, trace>>
  /\ UNCHANGED <<GITHUB_TOKEN, headers>>

\* the response stream is closed before its end event: fetchAPI registers no
\* listener for it (lines 45-56), so the promise is neither resolved nor rejected
OnAbort(c) ==
  /\ Suspended
  /\ req[c] = "open"
  /\ req' = [req EXCEPT ![c] = "aborted"]
  /\ UNCHANGED <<pc, file, readme, profileData, profileYAML, data, result, exitCode, failedAt, trace>>
  /\ UNCHANGED <<GITHUB_TOKEN, headers>>

\* Promise.all is fulfilled when all three collector promises are
Settled(c) == req[c] \in {"ended", "failed"}

\* a join that is fulfilled by the first collector to settle
AnySettled == \E c \in Collectors : Settled(c)

AllSettled == \A c \in Collectors : Settled(c)

\* lines 439-481: main resumes after the join and merges
MergeStep ==
  /\ pc = "join"
  /\ AllSettled
  /\ IF profileData.isObj
     THEN /\ profileData' = [profileData EXCEPT !.rec =
                 Merge(profileData.rec, result["gh"].stats, result["lc"].stats,
                       result["contrib"].count)]
          /\ pc' = "persist"
          /\ UNCHANGED <<exitCode, failedAt>>
     ELSE /\ Fatal("merge")
          /\ UNCHANGED profileData
  /\ UNCHANGED <<file, readme, profileYAML, req, data, result, trace>>
  /\ UNCHANGED <<GITHUB_TOKEN, headers>>

(***************************************************************************)
(* YAML.  A scalar of the document is its text and whether it is quoted:   *)
(* the text of a number is its digits (s = "digits"), as is the text of a  *)
(* string of digits.  yaml.dump quotes a string whose plain text would     *)
(* load as something else: digits, a date, null, the empty string.         *)
(***************************************************************************)
DateTexts == {Today.s, OldDate.s}

\* new Date(text): what yaml.load makes of a plain date
DateOf(text) == [t |-> "object", n |-> 0, d |-> 0, s |-> text]

Scalar(q, n, d, s) == [q |-> q, n |-> n, d |-> d, s |-> s]

\* the place of a key the mapping does not hold
NoScalar == Scalar(FALSE, 0, 0, "")

yamlDumpScalar(v) ==
  CASE v.t = "undefined" -> NoScalar
    [] v.t = "null" -> Scalar(FALSE, 0, 0, "null")
    [] v.t = "number" -> IF v.s = "NaN" THEN Scalar(FALSE, 0, 0, ".nan")
                                        ELSE Scalar(FALSE, v.n, v.d, "digits")
    [] v.t = "string" -> Scalar(v.s \in DateTexts \cup {"digits", "null", ".nan", ""}, v.n, v.d, v.s)
    [] OTHER -> Scalar(FALSE, 0, 0, v.s)

yamlLoadScalar(y) ==
  CASE y = NoScalar -> Undef
    [] y.q -> [t |-> "string", n |-> y.n, d |-> y.d, s |-> y.s]
    [] y.s = "digits" -> Frac(y.n, y.d)
    [] y.s = "null" -> Null
    [] y.s = ".nan" -> NaN
    [] y.s \in DateTexts -> DateOf(y.s)
    [] OTHER -> Str(y.s)

\* a mapping of the document; a key whose value is undefined is left out
yamlDumpMap(o) == [has |-> o.has, obj |-> [k \in Keys |-> yamlDumpScalar(o.obj[k])]]

yamlLoadMap(m) == [has |-> m.has, obj |-> [k \in Keys |-> yamlLoadScalar(m.obj[k])]]

\* yaml.dump(profileData, { lineWidth: 120 }): the hand-written part is
\* carried as it is
yamlDump(rec) ==
  RecordWith(rec.present, yamlDumpMap(rec.github_stats), yamlDumpMap(rec.leetcode_stats),
             rec.content)

\* yaml.load(profileYAML)
yamlLoad(doc) ==
  RecordWith(doc.present, yamlLoadMap(doc.github_stats), yamlLoadMap(doc.leetcode_stats),
             doc.content)

\* the file written on line 484; the content of profile.yaml is kept as the
\* record yaml.load reads from it
Dump(rec) == [state |-> "map", rec |-> yamlLoad(yamlDump(rec))]

\* lines 484-487: fs.writeFileSync(paths.profileData, ...), which may throw
Persist ==
  /\ pc = "persist"
  /\ \E ok \in BOOLEAN :
       IF ok
       THEN /\ file' = Dump(profileData.rec)
            /\ trace' = Append(trace, "write_profile")
            /\ pc' = "render"
            /\ UNCHANGED <<exitCode, failedAt>>
       ELSE /\ Fatal("persist")
            /\ trace' = Append(trace, "write_profile_failed")
            /\ UNCHANGED file
  /\ UNCHANGED <<readme, profileData, profileYAML, req, data, result>>
  /\ UNCHANGED <<GITHUB_TOKEN, headers>>

\* lines 491-519: generateREADME, fs.writeFileSync(paths.readme, ...), summary
RenderWrite ==
  /\ pc = "render"
  /\ \E ver \in Versions :
     IF RenderThrows(ver, profileData.rec)
     THEN /\ Fatal("render")
          /\ UNCHANGED <<readme, trace>>
     ELSE \E ok \in BOOLEAN :
            IF ok
            THEN /\ readme' = generateREADME(ver, profileData.rec)
                 /\ trace' = Append(trace, "write_readme")
                 /\ pc' = "exited"
                 /\ exitCode' = 0
                 /\ UNCHANGED failedAt
            ELSE /\ Fatal("write")
                 /\ trace' = Append(trace, "write_readme_failed")
                 /\ UNCHANGED readme
  /\ UNCHANGED <<file, profileData, profileYAML, req, data, result>>
  /\ UNCHANGED <<GITHUB_TOKEN, headers>>

\* line 526: main() is not awaited; once no request is in flight and main is
\* still suspended on a promise nobody will settle, node has nothing left to
\* run and the process ends with status 0
Drained ==
  /\ pc = "join"
  /\ \A c \in Collectors : Settled(c) \/ req[c] = "aborted"
  /\ ~AllSettled
  /\ pc' = "exited"
  /\ exitCode' = 0
  /\ failedAt' = "pending"
  /\ UNCHANGED <<file, readme, profileData, profileYAML, req, data, result, trace>>
  /\ UNCHANGED <<GITHUB_TOKEN, headers>>

Next ==
  \/ Load
  \/ \E c \in Collectors : Call(c)
  \/ \E c \in Collectors : OnResponse(c)
  \/ \E c \in Collectors : OnData(c)
  \/ \E c \in Collectors : OnEnd(c)
  \/ \E c \in Collectors : OnError(c)
  \/ \E c \in Collectors : OnAbort(c)
  \/ MergeStep
  \/ Persist
  \/ RenderWrite
  \/ Drained

Spec == Init /\ [][Next]_vars

(***************************************************************************)
(* The renderer on varied records: the runs that reach generateREADME with *)
(* every request failed, for a profile.yaml whose hand-written part varies *)
(* in the length of its texts, in its lists and in what it leaves out.     *)
(***************************************************************************)
TextLens == {Absent, 0, 10, 80}

ItemLens == {9, 70}

ListChoices ==
  {NoList} \cup {List(s) : s \in UNION {[1..n -> ItemLens] : n \in 0..MaxList}}

PresentChoices == {Sections} \cup {Sections \ {k} : k \in Sections}

RenderInputs ==
  {RecordWith(p, None, None, Content(t, la, lb, np)) :
     p \in PresentChoices, t \in TextLens, la \in ListChoices, lb \in ListChoices, np \in 0..1}

\* the state in which main() reaches line 491 when it loaded rec and the
\* three requests failed
AtRender(rec) ==
  LET merged == Merge(rec, None, None, Num(0))
  IN /\ pc = "render"
     /\ file = Dump(merged)
     /\ GITHUB_TOKEN = Str("ghp_secret")
     /\ headers = [c \in Collectors |-> fetchAPIHeaders(CollectorHeaders(c, GITHUB_TOKEN))]
     /\ readme = OldReadme
     /\ profileData = [loaded |-> TRUE, isObj |-> TRUE, rec |-> merged]
     /\ profileYAML = [state |-> "map", rec |-> rec]
     /\ req = [c \in Collectors |-> "failed"]
     /\ data = [c \in Collectors |-> EmptyData]
     /\ result = [c \in Collectors |-> Collect(c, Rejected)]
     /\ exitCode = -1
     /\ failedAt = "none"
     /\ trace = <<"read_profile", "call_gh", "call_lc", "call_contrib", "write_profile">>

RenderInit == \E rec \in RenderInputs : AtRender(rec)

RenderSpec == RenderInit /\ [][RenderWrite]_vars

(***************************************************************************)
(* The next run: the script started on a profile.yaml that an earlier run  *)
(* wrote, with every request failing, so that the merge gets null, null    *)
(* and 0.                                                                  *)
(***************************************************************************)
Outcomes(c) == {Rejected} \cup {Resolved(JSONParseOrNull(b)) : b \in Bodies(c)}

\* the files a run that reached line 484 leaves
SavedFiles ==
  {Dump(Merge(f.rec, Collect("gh", g).stats, Collect("lc", l).stats, Collect("contrib", n).count)) :
     f \in {h \in FileStates : h.state = "map"},
     g \in Outcomes("gh"), l \in Outcomes("lc"), n \in Outcomes("contrib")}

RerunInit ==
  /\ pc = "start"
  /\ file \in SavedFiles
  /\ GITHUB_TOKEN = Str("ghp_secret")
  /\ headers = [c \in Collectors |-> {}]
  /\ readme = OldReadme
  /\ profileData = [loaded |-> FALSE, isObj |-> FALSE, rec |-> NoRecord]
  /\ profileYAML = [state |-> "unread", rec |-> NoRecord]
  /\ req = [c \in Collectors |-> "idle"]
  /\ data = [c \in Collectors |-> EmptyData]
  /\ result = [c \in Collectors |-> NoResult]
  /\ exitCode = -1
  /\ failedAt = "none"
  /\ trace = <<>>

RerunNext ==
  \/ Load
  \/ \E c \in Collectors : Call(c)
  \/ \E c \in Collectors : OnError(c)
  \/ MergeStep
  \/ Persist
  \/ RenderWrite

RerunSpec == RerunInit /\ [][RerunNext]_vars

TypeOK ==
  /\ pc \in {"start", "call_gh", "call_lc", "call_contrib", "join", "persist", "render", "exited"}
  /\ exitCode \in {-1, 0, 1}
  /\ \A c \in Collectors : req[c] \in {"idle", "sent", "open", "ended", "failed", "aborted"}

(***************************************************************************)
(* Properties.                                                             *)
(***************************************************************************)
\* the record as it was loaded
Stored == profileYAML.rec

\* main has run the merge of lines 445-481
Merged ==
  /\ profileData.isObj
  /\ \/ pc \in {"persist", "render"}
     \/ pc = "exited" /\ failedAt \in {"none", "persist", "render", "write"}

\* collector c got a transport error, a body that is not JSON, or JSON null
NoPayload(c) ==
  \/ req[c] = "failed"
  \/ req[c] = "ended" /\ (~data[c].json \/ data[c].val = JPrim(Null))

\* C1: whatever the fetch outcome, a settled collector has handed a value to
\* the join; after a transport error or a null payload that value is null for
\* the host-stats and practice-stats collectors and 0 for the contribution count.
C1_CollectorsDegrade ==
  \A c \in Collectors :
    /\ Settled(c) /\ c \in {"gh", "lc"} => result[c].count = Undef
    /\ Settled(c) /\ c = "contrib" => ~result[c].stats.has /\ result[c].count # Undef
    /\ NoPayload(c) /\ c \in {"gh", "lc"} => ~result[c].stats.has
    /\ NoPayload(c) /\ c = "contrib" => result[c].count = Num(0)

C1_Witness ==
  /\ req["gh"] = "ended" /\ data["gh"] = JsonBody(JPrim(Null))
  /\ req["lc"] = "ended" /\ data["lc"] = HtmlBody
  /\ req["contrib"] = "failed"

\* the host-stats body is JSON but has none of the three expected fields
GhSchemaMismatch ==
  /\ req["gh"] = "ended"
  /\ data["gh"].json
  /\ data["gh"].val.k = "object"
  /\ \A k \in {"followers", "following", "public_repos"} : Get(data["gh"].val, k) = Undef

\* C2: a host-stats response without followers/following/public_repos makes
\* fetchGitHubStats return null, and the merge keeps every stored github_stats
\* field.
C2_SchemaMismatchKeepsStored ==
  GhSchemaMismatch =>
    /\ ~result["gh"].stats.has
    /\ Merged /\ Stored.github_stats.has =>
         \A k \in {"followers", "following", "public_repos", "total_stars", "last_updated"} :
           profileData.rec.github_stats.obj[k] = Stored.github_stats.obj[k]

C4_NoCollectorLeftPending ==
  /\ \A c \in Collectors : req[c] \in {"ended", "failed", "aborted"} => Settled(c)
  /\ pc = "exited" /\ profileData.loaded => AllSettled /\ failedAt # "pending"

\* the profile file has been rewritten in this run
Persisted == \E i \in 1..Len(trace) : trace[i] = "write_profile"

\* the loaded record has neither stats sub-record and both stats fetches are null
C5_Case ==
  /\ Persisted
  /\ ~Stored.github_stats.has /\ ~Stored.leetcode_stats.has
  /\ ~result["gh"].stats.has /\ ~result["lc"].stats.has

GhStatFields == {"followers", "following", "public_repos", "total_stars", "total_contributions"}
LcStatFields == {"total_solved", "easy", "medium", "hard", "acceptance_rate"}

\* C5 as claimed: in that case the persisted record has both sub-records, every
\* stat field of each is 0, and each carries a last_updated stamp.
C5_AllZeroAndStamped ==
  C5_Case =>
    /\ file.rec.github_stats.has /\ file.rec.leetcode_stats.has
    /\ \A k \in GhStatFields : file.rec.github_stats.obj[k] = Num(0)
    /\ \A k \in LcStatFields : file.rec.leetcode_stats.obj[k] = Num(0)
    /\ file.rec.github_stats.obj["last_updated"] # Undef
    /\ file.rec.leetcode_stats.obj["last_updated"] # Undef

\* C5 amended: in that case the persisted record has both sub-records;
\* github_stats holds total_contributions = 0 and nothing else, leetcode_stats
\* holds its five stat fields at 0, and neither has a last_updated stamp.
C5_DefaultsWithoutStamp ==
  C5_Case =>
    /\ file.rec.github_stats.has /\ file.rec.leetcode_stats.has
    /\ file.rec.github_stats.obj["total_contributions"] = Num(0)
    /\ \A k \in GhKeys \ {"total_contributions"} : file.rec.github_stats.obj[k] = Undef
    /\ \A k \in LcStatFields : file.rec.leetcode_stats.obj[k] = Num(0)
    /\ file.rec.leetcode_stats.obj["last_updated"] = Undef

C5_Witness == C5_Case /\ file.state = "map" /\ req["gh"] = "failed" /\ req["lc"] = "failed"

\* C6: when the host-stats collector returned an object, the merged
\* github_stats has its followers, following and public_repos, total_stars
\* equal to its public_repos, total_contributions equal to the contribution
\* collector's result (0 if falsy) and last_updated equal to today; a payload
\* followers of a > 0 and a total_count of b > 0 are merged as a and b.
C6_HostStatsMerged ==
  Merged /\ result["gh"].stats.has =>
    LET gs == profileData.rec.github_stats.obj
        fetched == result["gh"].stats.obj
        count == result["contrib"].count
    IN /\ gs["followers"] = fetched["followers"]
       /\ gs["following"] = fetched["following"]
       /\ gs["public_repos"] = fetched["public_repos"]
       /\ gs["total_stars"] = fetched["public_repos"]
       /\ gs["total_contributions"] = (IF Truthy(count) THEN count ELSE Num(0))
       /\ gs["last_updated"] = Today
       /\ \A a \in 1..(MaxStat + 1) :
            /\ Get(data["gh"].val, "followers") = Num(a) => gs["followers"] = Num(a)
            /\ data["contrib"].json /\ Get(data["contrib"].val, "total_count") = Num(a) =>
                 gs["total_contributions"] = Num(a)

C6_Witness ==
  /\ Merged
  /\ Stored.github_stats.has
  /\ Get(data["gh"].val, "followers") = Num(1)
  /\ Get(data["contrib"].val, "total_count") = Num(1)
  /\ profileData.rec.github_stats.obj["followers"] = Num(1)
  /\ profileData.rec.github_stats.obj["total_contributions"] = Num(1)

\* C7: when the host-stats collector returned null, every github_stats field
\* is as stored, except that an absent or falsy total_contributions becomes 0,
\* whatever the contribution collector returned.
C7_HostNullKeepsStored ==
  Merged /\ ~result["gh"].stats.has =>
    LET gs == profileData.rec.github_stats.obj
        old == IF Stored.github_stats.has THEN Stored.github_stats.obj ELSE EmptyObj
    IN /\ profileData.rec.github_stats.has
       /\ \A k \in Keys \ {"total_contributions"} : gs[k] = old[k]
       /\ gs["total_contributions"] =
            (IF Truthy(old["total_contributions"]) THEN old["total_contributions"] ELSE Num(0))

C7_Witness ==
  /\ Merged /\ ~result["gh"].stats.has
  /\ result["contrib"].count = Num(1)
  /\ Stored.github_stats.has
  /\ Stored.github_stats.obj["total_contributions"] = Num(0)
  /\ profileData.rec.github_stats.obj["total_contributions"] = Num(0)
  /\ profileData.rec.github_stats.obj["last_updated"] = OldDate

\* the practice-stats fetch failed or its payload lacks status "success"
LcUnavailable ==
  \/ req["lc"] = "failed"
  \/ req["lc"] = "ended" /\ (~data["lc"].json \/ Get(data["lc"].val, "status") # Str("success"))

\* C8: in that case fetchLeetCodeStats returns null, the merged leetcode_stats
\* is the stored one field for field (the zero defaults if none was stored),
\* and a non-zero exit is due to the load, a file write or the renderer.
C8_PracticeDegrades ==
  LcUnavailable =>
    /\ ~result["lc"].stats.has
    /\ Merged =>
         LET ls == profileData.rec.leetcode_stats
         IN /\ ls.has
            /\ Stored.leetcode_stats.has => ls.obj = Stored.leetcode_stats.obj
            /\ ~Stored.leetcode_stats.has =>
                 /\ \A k \in LcStatFields : ls.obj[k] = Num(0)
                 /\ \A k \in Keys \ LcStatFields : ls.obj[k] = Undef
    /\ exitCode = 1 =>
         \/ failedAt = "merge" /\ profileYAML.state = "empty"
         \/ failedAt = "persist" /\ trace[Len(trace)] = "write_profile_failed"
         \/ failedAt = "render" /\ "goals" \notin profileData.rec.present
         \/ failedAt = "write" /\ trace[Len(trace)] = "write_readme_failed"

C8_Witness ==
  /\ req["lc"] = "ended"
  /\ Get(data["lc"].val, "status") = Str("error")
  /\ pc = "exited" /\ exitCode = 0
  /\ readme.kind = "generated"
  /\ Stored.leetcode_stats.has
  /\ file.rec.leetcode_stats = Stored.leetcode_stats

\* C9: while profile.yaml is absent or unparsable, the run only reads it and
\* exits with status 1: no request is issued and neither file is written.
C9_ConfigErrorIsFatal ==
  /\ [](file.state \in {"absent", "invalid"} =>
          /\ pc \in {"start", "exited"}
          /\ pc = "exited" => exitCode = 1
          /\ \A c \in Collectors : req[c] = "idle"
          /\ readme = OldReadme
          /\ \A i \in 1..Len(trace) : trace[i] = "read_profile")
  /\ [][file.state \in {"absent", "invalid"} => file' = file /\ readme' = readme]_vars

C9_Witness == file.state = "invalid" /\ pc = "exited" /\ exitCode = 1 /\ Len(trace) = 1

IsPrefix(p, q) == Len(p) <= Len(q) /\ \A i \in 1..Len(p) : p[i] = q[i]

StageOrders ==
  LET fanOut == <<"read_profile", "call_gh", "call_lc", "call_contrib">>
  IN {fanOut \o <<"write_profile", "write_readme">>,
      fanOut \o <<"write_profile", "write_readme_failed">>,
      fanOut \o <<"write_profile_failed">>}

\* C10: the operations of a run occur in the order read, three requests,
\* profile write, README write, each at most once; the profile is written
\* only after the read and after all three collectors settled, the README
\* only after the profile write succeeded; once the process has exited
\* nothing more happens.
C10_StageOrder ==
  /\ [](/\ \E q \in StageOrders : IsPrefix(trace, q)
        /\ Persisted => profileData.loaded /\ \A c \in Collectors : req[c] \in {"ended", "failed"}
        /\ readme # OldReadme => Persisted /\ trace[Len(trace)] = "write_readme"
        /\ exitCode = 1 /\ failedAt \in {"load", "merge", "persist"} => readme = OldReadme
        /\ exitCode = 1 /\ failedAt \in {"load", "merge"} => ~Persisted)
  /\ [][exitCode = -1]_vars

C10_Witness ==
  /\ pc = "exited" /\ failedAt = "write"
  /\ trace = <<"read_profile", "call_gh", "call_lc", "call_contrib",
               "write_profile", "write_readme_failed">>
  /\ file.rec = profileData.rec
  /\ readme = OldReadme

(***************************************************************************)
(* C16: request headers.                                                   *)
(***************************************************************************)
HasAuthorization(c) == \E h \in headers[c] : h[1] = "Authorization"

\* C16: every request that was sent carries the fixed User-Agent header; it
\* carries an Authorization header, holding the token, exactly when the
\* token is set (non-empty) and the request is the host-stats or the
\* contribution-count request; the practice-stats request never carries one,
\* and with the token unset no request does.
C16_TokenOnlyOnIdentityCalls ==
  \A c \in Collectors :
    IF req[c] = "idle"
    THEN headers[c] = {}
    ELSE /\ UserAgent \in headers[c]
         /\ HasAuthorization(c) <=> (c \in {"gh", "contrib"} /\ GITHUB_TOKEN \notin {Undef, Str("")})
         /\ \A h \in headers[c] : h[1] = "Authorization" => h[2] = GITHUB_TOKEN
         /\ \A h \in headers[c] : h[1] \in {"User-Agent", "Authorization"}

C16_Witness ==
  /\ GITHUB_TOKEN = Str("ghp_secret")
  /\ \A c \in Collectors : req[c] # "idle"
  /\ headers["lc"] = {UserAgent}
  /\ HasAuthorization("gh") /\ HasAuthorization("contrib")

(***************************************************************************)
(* C11: the process outcome.                                               *)
(***************************************************************************)
\* the stages whose failure reaches the catch of main(); the merge fails on
\* a profile document that parsed to no mapping and counts with the load
FatalStages == {"load", "merge", "persist", "render", "write"}

\* C11: a run that has ended has a non-zero outcome exactly when a fatal
\* stage failed (profile load/parse, profile persist, render, README write);
\* whatever the three requests did (answered, answered with an unusable
\* body, failed in transport), a run in which no fatal stage failed ends
\* with outcome zero and with both files written.
C11_OutcomeTracksFatalStages ==
  pc = "exited" =>
    /\ exitCode \in {0, 1}
    /\ exitCode = 1 <=> failedAt \in FatalStages
    /\ failedAt \notin FatalStages =>
         /\ exitCode = 0
         /\ Persisted
         /\ readme.kind = "generated"

(***************************************************************************)
(* C12: a second merge and save without new fetch data.                    *)
(***************************************************************************)
\* C12: a run that starts from a profile.yaml written by an earlier run and
\* whose three fetches give nothing (host stats null, practice stats null,
\* contribution count 0) merges to the record it loaded, field for field,
\* and writes back the document it read.
C12_RerunIsNoOp ==
  /\ pc \in {"persist", "render", "exited"} /\ failedAt \notin {"load", "merge"} =>
       /\ \A c \in Collectors : ~result[c].stats.has /\ result[c].count \in {Undef, Num(0)}
       /\ profileData.rec = profileYAML.rec
  /\ Persisted =>
       /\ file = profileYAML
       /\ yamlDump(profileData.rec) = yamlDump(profileYAML.rec)

C12_Witness ==
  /\ Persisted
  /\ file = profileYAML
  /\ file.rec.github_stats.obj["followers"] = Str("many")
  /\ file.rec.github_stats.obj["total_contributions"] = Num(MaxStat)
  /\ file.rec.github_stats.obj["last_updated"] = Today
  /\ file.rec.leetcode_stats.obj["total_solved"] = Num(MaxStat)

(***************************************************************************)
(* C13: the width of the rendered box.                                     *)
(***************************************************************************)
\* C13: whatever the lengths of the record's texts and lists, every line of
\* the written README that stands between two border characters holds
\* exactly CONTENT_WIDTH (73) characters between them, in both copies of
\* the renderer: an overlong text is cut, never lengthening its line.
C13_EveryBoxLineHasContentWidth ==
  \A i \in 1..Len(readme.lines) :
    readme.lines[i].b => readme.lines[i].w = CONTENT_WIDTH

(***************************************************************************)
(* C14: rendering a record with parts left out.                            *)
(***************************************************************************)
\* C14: whichever optional sub-records and fields of the record are absent
\* (profile, tech_stack and its lists, current_mission, current_projects
\* and a project's tech or description, goals and its lists, social),
\* generateREADME returns a document: the run never ends in the render
\* stage, and a run whose README write succeeds leaves a generated README.
C14_RenderNeverThrows ==
  /\ failedAt # "render"
  /\ pc = "exited" /\ failedAt = "none" => readme.kind = "generated"

(***************************************************************************)
(* C15: the type of the stored statistics.                                 *)
(***************************************************************************)
IsNumber(v) == v.t = "number" /\ v.s # "NaN"

\* C15: after a merge every statistic written from API data is a number:
\* the five github_stats fields when the host-stats fetch gave a result, the
\* five leetcode_stats fields when the practice-stats fetch gave one; an API
\* value that is absent or not a number is stored as 0.
C15_StoredStatsAreNumbers ==
  Merged =>
    /\ result["gh"].stats.has =>
         \A k \in GhStatFields : IsNumber(profileData.rec.github_stats.obj[k])
    /\ result["lc"].stats.has =>
         \A k \in LcStatFields : IsNumber(profileData.rec.leetcode_stats.obj[k])

(***************************************************************************)
(* C17: the lines of a sequence-valued field.                              *)
(***************************************************************************)
\* the lines of the written README that show field f
LinesOf(f) == SelectSeq(readme.lines, LAMBDA l : l.f = f)

ListFields == TechLists \cup {"weapons", "weaknesses", "short_term", "long_term"}

\* the elements of the rendered record's list f
ItemsOf(f) ==
  LET c == profileData.rec.content
  IN CASE f \in TechLists -> c.tech_stack[f].items
       [] f \in {"weapons", "weaknesses"} ->
            IF "current_mission" \in profileData.rec.present
            THEN c.current_mission[f].items ELSE <<>>
       [] OTHER -> c.goals[f].items

\* C17: in a written README every sequence-valued field (each tech list,
\* weapons, weaknesses, short-term and long-term goals) of n >= 0 elements
\* has exactly n lines, each bordered and showing one element, in the order
\* of the sequence; an empty sequence has no line at all.
C17_OneBorderedLinePerElement ==
  readme.kind = "generated" =>
    \A f \in ListFields :
      /\ Len(LinesOf(f)) = Len(ItemsOf(f))
      /\ \A i \in 1..Len(LinesOf(f)) :
           LinesOf(f)[i].b /\ LinesOf(f)[i].item = ItemsOf(f)[i]

(***************************************************************************)
(* C18: the metrics box against the persisted record.                      *)
(***************************************************************************)
\* C18: after a successful run every statistic shown in the metrics box
\* (Followers, Following, Repositories, Contributions, Total Solved, Easy,
\* Medium, Hard, Acceptance Rate) is the corresponding field of the record
\* persisted in the same run, 0 standing for a field the record lacks; the
\* Contributions row shows github_stats.total_contributions.
C18_MetricsShowPersistedRecord ==
  pc = "exited" /\ exitCode = 0 /\ readme.kind = "generated" =>
    /\ \A k \in {"followers", "following", "public_repos", "total_contributions"} :
         readme.stats[k] = Or(file.rec.github_stats.obj[k], Num(0))
    /\ \A k \in LcStatFields :
         readme.stats[k] = Or(file.rec.leetcode_stats.obj[k], Num(0))

(***************************************************************************)
(* C19: the merged record and the order of completion.                     *)
(***************************************************************************)
\* what the request of collector c came to: a transport error, or the body
\* that had arrived when the response ended
OutcomeOf(c) == IF req[c] = "failed" THEN Rejected ELSE Resolved(JSONParseOrNull(data[c]))

\* C19: the merged record, and the record persisted, is determined by the
\* loaded record and by what each of the three requests came to (and the
\* date): it is the merge of the loaded record with each collector's result
\* for its own request, in whatever order the requests completed or failed.
C19_MergedIsFunctionOfResults ==
  Merged =>
    /\ profileData.rec =
         Merge(Stored, Collect("gh", OutcomeOf("gh")).stats, Collect("lc", OutcomeOf("lc")).stats,
               Collect("contrib", OutcomeOf("contrib")).count)
    /\ Persisted => file = Dump(profileData.rec)

C19_Witness ==
  /\ Persisted
  /\ req = [gh |-> "ended", lc |-> "ended", contrib |-> "ended"]
  /\ \A c \in {"gh", "lc"} : result[c].stats.has
  /\ result["contrib"].count = Num(MaxStat)
  /\ file.rec.github_stats.obj["total_contributions"] = Num(MaxStat)
  /\ file.rec.leetcode_stats.obj["last_updated"] = Today
  /\ file.rec.github_stats # Stored.github_stats

====
